---- MODULE Spec2Model ----
(***************************************************************************)
(* Model of QueryService (src/src/app/core/queries/query.service.ts): the  *)
(* service that issues similarity queries over the Cineast API and         *)
(* assembles the QR_* frames of the response into a map of result          *)
(* containers, a list of features and a stream of QueryChange events.      *)
(*                                                                         *)
(* One action per public method and one for the delivery of an inbound     *)
(* frame.  Every handler runs to completion (single-threaded JavaScript),  *)
(* so each action is the whole handler, the events it emits included.      *)
(***************************************************************************)
EXTENDS Integers, Sequences, FiniteSets, TLC

\* ------------------------------------------------------------------ bounds
\* Longest content list of an inbound frame.
MaxContent == 2
\* Longest array handed to OrderBySegmentPipe.transform.
MaxSegments == 3

\* ------------------------------------------------------------- value sets
\* JavaScript null / undefined (the two are equal under ==).
Null == "null"
\* Query identifiers the backend assigns.
QueryIds == {"q1", "q2"}
\* Object and segment identifiers, feature categories and file names the
\* inbound frames carry.
ObjectIds == {"o1"}
SegmentIds == {"s1"}
Categories == {"color", "edge"}
Names == {"cat.jpg", "dog.jpg"}
\* Raw similarity values, in hundredths (80 stands for 0.8).
Values == {80}
\* The segment identifiers a caller passes to findMoreLikeThis.
ExampleIds == {"s1", "s2"}
\* The SimilarityQuery objects a caller hands to findSimilar (opaque here).
Queries == {"query1", "query2"}

\* ---------------------------------------------------------------- helpers
\* A Map with no entry.
EmptyMap == [k \in {} |-> Null]
\* Map.has(k)
Has(m, k) == k \in DOMAIN m
\* Map.set(k, v)
Put(m, k, v) == [x \in (DOMAIN m) \cup {k} |-> IF x = k THEN v ELSE m[x]]
\* All sequences over S of length at most n.
SeqsUpTo(S, n) == UNION {[1..k -> S] : k \in 0..n}
\* new Feature(category, category, 100)
DefaultWeight == 100
NewFeature(category) ==
    [name |-> category, label |-> category, weight |-> DefaultWeight]

\* A content entry of a QR_OBJECT frame that is null (skipped by "if (object)").
NullObject == [objectId |-> Null, name |-> Null]
ObjectEntries ==
    [objectId : ObjectIds, name : Names] \cup {NullObject}
SegmentEntries == [segmentId : SegmentIds, objectId : ObjectIds]
SimilarityEntries == [key : SegmentIds, value : Values]

\* ------------------------------------------------------------------ state
VARIABLES
    results,                \* Map objectId -> MediaObjectScoreContainer
    segment_to_object_map,  \* Map segmentId -> objectId
    queryId,                \* id of the current query, Null before the first
    running,                \* flag: a query is running
    features,               \* list of the Features known to the service
    emitted,                \* QueryChange events the last operation emitted
    sent,                   \* requests the last operation handed to _api.send
    last,                   \* the last operation: its kind, arguments, result
    pending,                \* a request was sent and no QR_END processed since
    started,                \* a STARTED event has been emitted
    ended,                  \* ENDED events since the last STARTED (2 = more)
    script,                 \* how many frames of Scenario were just processed
    observed,               \* the events emitted since Scenario began
    scored,                 \* per emitted event: were all scores up to date
    seen,                   \* what the frames of this query have referenced
    mediaobjects,           \* GalleryComponent: the containers it displays
    views,                  \* per emitted event: what a subscriber could read
    pipe                    \* OrderBySegmentPipe: the last call of transform

vars == <<results, segment_to_object_map, queryId, running, features,
          emitted, sent, last, pending, started, ended, script, observed,
          scored, seen, mediaobjects, views, pipe>>

\* The fields of the service as one record, threaded through the handlers.
\* events collects what stateSubject.next is called with, in order.
Service ==
    [results |-> results,
     segment_to_object_map |-> segment_to_object_map,
     queryId |-> queryId,
     running |-> running,
     features |-> features,
     events |-> <<>>,
     scored |-> <<>>,
     mediaobjects |-> mediaobjects,
     views |-> <<>>]

\* ------------------------------------------- MediaObjectScoreContainer
\* The container class is imported by the service; only its use is in the
\* service's source.  A container holds the object's metadata, its segments
\* (each with the raw similarity value per feature name) and the score.
NewContainer == [mediaObject |-> NullObject, segments |-> EmptyMap, score |-> 0]

\* container.addMediaSegment(segment): creates the segment's entry, or
\* updates the entry's segment data and keeps its similarity values.
addMediaSegment(c, segment) ==
    LET old == IF Has(c.segments, segment.segmentId)
               THEN c.segments[segment.segmentId].similarities
               ELSE EmptyMap
    IN [c EXCEPT !.segments =
            Put(@, segment.segmentId,
                [objectId |-> segment.objectId, similarities |-> old])]

\* container.addSimilarity(feature, similarity): stores the raw value under
\* (segment, feature), creating the segment's entry on first reference.
addSimilarity(c, feature, similarity, owner) ==
    LET seg == IF Has(c.segments, similarity.key)
               THEN c.segments[similarity.key]
               ELSE [objectId |-> owner, similarities |-> EmptyMap]
    IN [c EXCEPT !.segments =
            Put(@, similarity.key,
                [seg EXCEPT !.similarities =
                    Put(@, feature.name, similarity.value)])]

\* The default weight function: a segment's score is the weighted sum of its
\* raw values over the features (an absent value contributes 0).
RECURSIVE scoreForSegment(_, _)
scoreForSegment(fs, similarities) ==
    IF fs = <<>> THEN 0
    ELSE (IF Has(similarities, Head(fs).name)
          THEN similarities[Head(fs).name] * Head(fs).weight
          ELSE 0) + scoreForSegment(Tail(fs), similarities)

\* The largest element of a finite set of naturals, 0 for the empty set.
MaxOf(S) == IF S = {} THEN 0 ELSE CHOOSE x \in S : \A y \in S : y <= x

\* container.update(features, weightFunction): the object's score is the
\* maximum of its segments' scores.
update(c, fs) ==
    [c EXCEPT !.score =
        MaxOf({scoreForSegment(fs, c.segments[sid].similarities) :
                 sid \in DOMAIN c.segments})]

\* --------------------------------------------------------- QueryService
\* What a subscriber of the service's observable finds when it reads the
\* scores during an emission: every container's score is the one update
\* computes from the values and features the service holds at that moment.
Coherent(s) ==
    \A o \in DOMAIN s.results :
        s.results[o].score = update(s.results[o], s.features).score

\* ------------------------------------------------------ GalleryComponent
\* container.show(): a container is displayed once it has a positive score.
show(c) == c.score > 0

\* The rank of an object identifier in ascending identifier order.
IdRank(id) == IF id = "o1" THEN 1 ELSE 2

\* MediaObjectScoreContainer.compareAsc(a, b) puts a before b: the higher
\* score first, equal scores by ascending object identifier.
compareAsc(a, b) ==
    \/ a.score > b.score
    \/ a.score = b.score /\ IdRank(a.objectId) < IdRank(b.objectId)

\* updateGallery() that displays the containers in the order of the map.
updateGallery_Unsorted(s) ==
    LET cache == {[objectId |-> o, score |-> s.results[o].score] :
                     o \in {x \in DOMAIN s.results : show(s.results[x])}}
    IN [i \in 1..Cardinality(cache) |->
           CHOOSE a \in cache :
               Cardinality({b \in cache : IdRank(b.objectId) < IdRank(a.objectId)})
                   = i - 1]

\* updateGallery(): the displayed containers (each by its id and score),
\* collected with forEach and sorted with compareAsc.
updateGallery(s) ==
    LET cache == {[objectId |-> o, score |-> s.results[o].score] :
                     o \in {x \in DOMAIN s.results : show(s.results[x])}}
    IN [i \in 1..Cardinality(cache) |->
           CHOOSE a \in cache :
               Cardinality({b \in cache : compareAsc(b, a)}) = i - 1]

\* What a subscriber reads through getQueryId(), size() and getFeatures()
\* during an emission: the query id, and whether the service holds no
\* container, no feature and no index entry.
View(s) ==
    [queryId |-> s.queryId,
     blank |-> (/\ s.results = EmptyMap
                /\ s.features = <<>>
                /\ s.segment_to_object_map = EmptyMap)]

\* stateSubject.next(change): subscribers run synchronously inside the call;
\* the gallery's subscription rebuilds its list on UPDATED.
Emit(s, change) ==
    [s EXCEPT !.events = Append(@, change),
              !.scored = Append(@, Coherent(s)),
              !.views = Append(@, View(s)),
              !.mediaobjects = IF change = "UPDATED" THEN updateGallery(s)
                               ELSE @]

\* startNewQuery that forgets to reset the feature list.
startNewQuery_KeepFeatures(s, id) ==
    Emit([s EXCEPT !.results = EmptyMap,
                   !.segment_to_object_map = EmptyMap,
                   !.queryId = id,
                   !.running = TRUE],
         "STARTED")

\* startNewQuery that leaves the index of the previous query in place.
startNewQuery_KeepIndex(s, id) ==
    Emit([s EXCEPT !.results = EmptyMap,
                   !.queryId = id,
                   !.features = <<>>,
                   !.running = TRUE],
         "STARTED")

\* startNewQuery that announces the new query before it resets the fields.
startNewQuery_EmitFirst(s, id) ==
    LET s1 == Emit(s, "STARTED")
    IN [s1 EXCEPT !.results = EmptyMap,
                  !.segment_to_object_map = EmptyMap,
                  !.queryId = id,
                  !.features = <<>>,
                  !.running = TRUE]

\* startNewQuery(id)
startNewQuery(s, id) ==
    Emit([s EXCEPT !.results = EmptyMap,
                   !.segment_to_object_map = EmptyMap,
                   !.queryId = id,
                   !.features = <<>>,
                   !.running = TRUE],
         "STARTED")

\* if (!this.results.has(id)) this.results.set(id, new MediaObjectScoreContainer())
Ensure(res, id) == IF Has(res, id) THEN res ELSE Put(res, id, NewContainer)

\* The loop of processObjectMessage with the assignment of mediaObject moved
\* inside the test for a missing container: the first entry per id wins.
RECURSIVE ObjectLoop_FirstWins(_, _)
ObjectLoop_FirstWins(res, content) ==
    IF content = <<>> THEN res
    ELSE LET object == Head(content)
         IN ObjectLoop_FirstWins(
                IF object # NullObject /\ ~Has(res, object.objectId)
                THEN Put(res, object.objectId,
                         [NewContainer EXCEPT !.mediaObject = object])
                ELSE res,
                Tail(content))

\* The body of the loop of processObjectMessage, over the rest of the content.
RECURSIVE ObjectLoop(_, _)
ObjectLoop(res, content) ==
    IF content = <<>> THEN res
    ELSE LET object == Head(content)
             r1 == Ensure(res, object.objectId)
         IN ObjectLoop(
                IF object # NullObject
                THEN Put(r1, object.objectId,
                         [r1[object.objectId] EXCEPT !.mediaObject = object])
                ELSE res,
                Tail(content))

\* processObjectMessage that announces the update only when there were entries.
processObjectMessage_SilentWhenEmpty(s, obj) ==
    IF obj.content = <<>> THEN s
    ELSE Emit([s EXCEPT !.results = ObjectLoop(@, obj.content)], "UPDATED")

\* processObjectMessage(obj)
processObjectMessage(s, obj) ==
    Emit([s EXCEPT !.results = ObjectLoop(@, obj.content)], "UPDATED")

\* The loop of processSegmentMessage putting a fresh container under the
\* object id for every entry.
RECURSIVE SegmentLoop_ResetContainer(_, _, _)
SegmentLoop_ResetContainer(res, index, content) ==
    IF content = <<>> THEN <<res, index>>
    ELSE LET segment == Head(content)
         IN SegmentLoop_ResetContainer(
                Put(res, segment.objectId,
                    addMediaSegment(NewContainer, segment)),
                Put(index, segment.segmentId, segment.objectId),
                Tail(content))

\* The body of the loop of processSegmentMessage: the pair <<results, index>>.
RECURSIVE SegmentLoop(_, _, _)
SegmentLoop(res, index, content) ==
    IF content = <<>> THEN <<res, index>>
    ELSE LET segment == Head(content)
             r1 == Ensure(res, segment.objectId)
         IN SegmentLoop(
                Put(r1, segment.objectId,
                    addMediaSegment(r1[segment.objectId], segment)),
                Put(index, segment.segmentId, segment.objectId),
                Tail(content))

\* processSegmentMessage(seg)
processSegmentMessage(s, seg) ==
    LET r == SegmentLoop(s.results, s.segment_to_object_map, seg.content)
    IN Emit([s EXCEPT !.results = r[1], !.segment_to_object_map = r[2]],
            "UPDATED")

\* rerank that returns at once when there is no container.
rerank_SkipWhenEmpty(s) ==
    IF s.results = EmptyMap THEN s
    ELSE Emit(Emit([s EXCEPT !.results =
                        [o \in DOMAIN s.results |->
                            update(s.results[o], s.features)]],
                   "FEATURE"),
              "UPDATED")

\* rerank that announces the change without updating the containers.
rerank_NoUpdate(s) == Emit(Emit(s, "FEATURE"), "UPDATED")

\* rerank that announces the update only.
rerank_UpdatedOnly(s) ==
    Emit([s EXCEPT !.results =
              [o \in DOMAIN s.results |-> update(s.results[o], s.features)]],
         "UPDATED")

\* rerank()
rerank(s) ==
    Emit(Emit([s EXCEPT !.results =
                   [o \in DOMAIN s.results |-> update(s.results[o], s.features)]],
              "FEATURE"),
         "UPDATED")

\* The index of the feature named category in the list, 0 when there is none.
FeatureIndex(fs, category) ==
    IF \E i \in 1..Len(fs) : fs[i].name = category
    THEN CHOOSE i \in 1..Len(fs) :
            fs[i].name = category /\ \A j \in 1..(i - 1) : fs[j].name # category
    ELSE 0

\* addFeatureForCategory that emits FEATURE for a feature it found as well.
addFeatureForCategory_AlwaysEmit(s, category) ==
    IF FeatureIndex(s.features, category) # 0 THEN Emit(s, "FEATURE")
    ELSE Emit([s EXCEPT !.features = Append(@, NewFeature(category))], "FEATURE")

\* addFeatureForCategory without the search for a feature of that name.
addFeatureForCategory_AlwaysNew(s, category) ==
    Emit([s EXCEPT !.features = Append(@, NewFeature(category))], "FEATURE")

\* addFeatureForCategory(category): the service after the call; the feature
\* it returns is FeatureFor(that service, category).
addFeatureForCategory(s, category) ==
    IF FeatureIndex(s.features, category) # 0 THEN s
    ELSE Emit([s EXCEPT !.features = Append(@, NewFeature(category))], "FEATURE")

FeatureFor(s, category) == s.features[FeatureIndex(s.features, category)]

\* The loop of processSimilarityMessage without the test of the looked-up
\* object id: an unknown segment files its value under the key undefined.
RECURSIVE SimilarityLoop_NoIndexCheck(_, _, _, _)
SimilarityLoop_NoIndexCheck(res, index, feature, content) ==
    IF content = <<>> THEN res
    ELSE LET similarity == Head(content)
             objectId == IF Has(index, similarity.key)
                         THEN index[similarity.key] ELSE Null
             r1 == Ensure(res, objectId)
         IN SimilarityLoop_NoIndexCheck(
                Put(r1, objectId,
                    addSimilarity(r1[objectId], feature, similarity, objectId)),
                index, feature, Tail(content))

\* The body of the loop of processSimilarityMessage.
RECURSIVE SimilarityLoop(_, _, _, _)
SimilarityLoop(res, index, feature, content) ==
    IF content = <<>> THEN res
    ELSE LET similarity == Head(content)
         IN SimilarityLoop(
                IF Has(index, similarity.key)
                THEN LET objectId == index[similarity.key]
                         r1 == Ensure(res, objectId)
                     IN Put(r1, objectId,
                            addSimilarity(r1[objectId], feature, similarity,
                                          objectId))
                ELSE res,
                index, feature, Tail(content))

\* processSimilarityMessage that re-ranks before it stores the frame's values.
processSimilarityMessage_StoreAfterRerank(s, sim) ==
    LET s1 == rerank(addFeatureForCategory(s, sim.category))
        feature == FeatureFor(s1, sim.category)
    IN [s1 EXCEPT !.results =
            SimilarityLoop(@, s1.segment_to_object_map, feature, sim.content)]

\* processSimilarityMessage(sim)
processSimilarityMessage(s, sim) ==
    LET s1 == addFeatureForCategory(s, sim.category)
        feature == FeatureFor(s1, sim.category)
    IN rerank([s1 EXCEPT !.results =
                   SimilarityLoop(@, s1.segment_to_object_map, feature,
                                  sim.content)])

\* finalizeQuery that leaves the index in place.
finalizeQuery_KeepIndex(s) == Emit([s EXCEPT !.running = FALSE], "ENDED")

\* finalizeQuery that leaves the running flag set.
finalizeQuery_KeepRunning(s) ==
    Emit([s EXCEPT !.segment_to_object_map = EmptyMap], "ENDED")

\* finalizeQuery()
finalizeQuery(s) ==
    Emit([s EXCEPT !.segment_to_object_map = EmptyMap, !.running = FALSE],
         "ENDED")

\* An identifier check that lets every frame through.
LooseEq_Any(a, b) == TRUE

\* a == b of JavaScript on two identifiers (null == undefined holds).
LooseEq(a, b) == a = b

\* onApiMessage(message): the switch over parsed.messagetype.
onApiMessage(s, parsed) ==
    CASE parsed.messagetype = "QR_START" ->
            startNewQuery(s, parsed.queryId)
      [] parsed.messagetype = "QR_OBJECT" ->
            IF LooseEq(parsed.queryId, s.queryId)
            THEN processObjectMessage(s, parsed) ELSE s
      [] parsed.messagetype = "QR_SEGMENT" ->
            IF LooseEq(parsed.queryId, s.queryId)
            THEN processSegmentMessage(s, parsed) ELSE s
      [] parsed.messagetype = "QR_SIMILARITY" ->
            IF LooseEq(parsed.queryId, s.queryId)
            THEN processSimilarityMessage(s, parsed) ELSE s
      [] parsed.messagetype = "QR_END" ->
            finalizeQuery(s)
      [] OTHER -> s

\* onApiMessage(message) for a text that is not JSON: JSON.parse, the first
\* statement, throws SyntaxError; nothing has been assigned or emitted and
\* nothing catches the exception.
onApiMessageMalformed(s) == [service |-> s, thrown |-> "SyntaxError"]

\* The kinds of frame the constructor's filter lets through to onApiMessage.
Subscribed == {"QR_START", "QR_END", "QR_SIMILARITY", "QR_OBJECT", "QR_SEGMENT"}

\* The constructor's subscription: what one message of the API's observable
\* does to the service.
onMessage(s, msg) ==
    IF msg.messagetype \in Subscribed THEN onApiMessage(s, msg) ELSE s

\* findSimilar without the test of the running flag.
findSimilar_Unguarded(s, query) ==
    [out |-> <<[messagetype |-> "Q_SIM", query |-> query]>>, ret |-> "true"]

\* findSimilar(query): the service is unchanged; the pair of what is handed
\* to _api.send and the value returned.
findSimilar(s, query) ==
    IF ~s.running
    THEN [out |-> <<[messagetype |-> "Q_SIM", query |-> query]>>, ret |-> "true"]
    ELSE [out |-> <<>>, ret |-> "false"]

\* The names of the features, in list order (the loop of findMoreLikeThis).
RECURSIVE CategoriesOf(_)
CategoriesOf(fs) ==
    IF fs = <<>> THEN <<>> ELSE <<Head(fs).name>> \o CategoriesOf(Tail(fs))

\* findMoreLikeThis without the test of the running flag.
findMoreLikeThis_IgnoresRunning(s, segmentId) ==
    IF Len(s.features) = 0 THEN [out |-> <<>>, ret |-> "false"]
    ELSE [out |-> <<[messagetype |-> "Q_MLT", segmentId |-> segmentId,
                     categories |-> CategoriesOf(s.features)]>>,
          ret |-> "true"]

\* findMoreLikeThis without the test for an empty feature list.
findMoreLikeThis_NoFeatureCheck(s, segmentId) ==
    IF s.running THEN [out |-> <<>>, ret |-> "false"]
    ELSE [out |-> <<[messagetype |-> "Q_MLT", segmentId |-> segmentId,
                     categories |-> CategoriesOf(s.features)]>>,
          ret |-> "true"]

\* findMoreLikeThis(segmentId)
findMoreLikeThis(s, segmentId) ==
    IF s.running THEN [out |-> <<>>, ret |-> "false"]
    ELSE IF Len(s.features) = 0 THEN [out |-> <<>>, ret |-> "false"]
    ELSE [out |-> <<[messagetype |-> "Q_MLT", segmentId |-> segmentId,
                     categories |-> CategoriesOf(s.features)]>>,
          ret |-> "true"]

\* --------------------------------------------------- OrderBySegmentPipe
\* The SegmentScoreContainers a template hands to the pipe, each with its id
\* and start time, and the values of the array argument: null, undefined or
\* an array of containers.
PipeSegments == [segmentId : {"s1", "s2"}, starttime : {0, 5}]
PipeArrays ==
    {[kind |-> k, items |-> <<>>] : k \in {"null", "undefined"}}
        \cup {[kind |-> "array", items |-> a] :
                  a \in SeqsUpTo(PipeSegments, MaxSegments)}
\* The values of the desc argument; "undefined" is the omitted argument.
PipeFlags == {"undefined", "true", "false"}

\* The comparator's verdict that a may stay before b (its result is <= 0).
InOrder(a, b, desc) ==
    IF desc THEN a.starttime - b.starttime <= 0
    ELSE b.starttime - a.starttime <= 0

\* The arrangements Array.prototype.sort may leave for the comparator: every
\* permutation of items in which each element may stay before the next
\* (the order of elements that compare equal is the engine's choice).
Sorted(items, desc) ==
    LET n == Len(items)
        perms == {f \in [1..n -> 1..n] : \A i, j \in 1..n : f[i] = f[j] => i = j}
    IN {[i \in 1..n |-> items[f[i]]] :
           f \in {g \in perms :
                      \A i \in 1..(n - 1) :
                          InOrder(items[g[i]], items[g[i + 1]], desc)}}

\* transform that sorts the array it was given instead of a copy.
transform_InPlace(array, flag) ==
    LET desc == IF flag = "undefined" THEN TRUE ELSE flag = "true"
    IN IF array.kind # "array" \/ Len(array.items) = 0
       THEN {[array |-> array, out |-> <<>>]}
       ELSE {[array |-> [array EXCEPT !.items = out], out |-> out] :
                out \in Sorted(array.items, desc)}

\* transform(array, desc = true): the possible outcomes, each the array
\* argument as the call leaves it and the array returned.
transform(array, flag) ==
    LET desc == IF flag = "undefined" THEN TRUE ELSE flag = "true"
    IN IF array.kind # "array" \/ Len(array.items) = 0
       THEN {[array |-> array, out |-> <<>>]}
       ELSE {[array |-> array, out |-> out] :
                out \in Sorted(array.items, desc)}

\* No call of transform yet.
NotCalled ==
    [called |-> FALSE, given |-> [kind |-> "undefined", items |-> <<>>],
     flag |-> "undefined", array |-> [kind |-> "undefined", items |-> <<>>],
     out |-> <<>>]

\* ----------------------------------------------------------- environment
\* The messages the API's observable can deliver: the five kinds the service
\* subscribes to, the backend's QR_ERROR, and a kind the service does not know.
DataIds == QueryIds \cup {Null}
Frame(kind, q, category, content) ==
    [messagetype |-> kind, queryId |-> q, category |-> category,
     content |-> content]
StartFrames == {Frame("QR_START", q, Null, <<>>) : q \in QueryIds}
ObjectFrames ==
    {Frame("QR_OBJECT", q, Null, c) :
        q \in DataIds, c \in SeqsUpTo(ObjectEntries, MaxContent)}
SegmentFrames ==
    {Frame("QR_SEGMENT", q, Null, c) :
        q \in DataIds, c \in SeqsUpTo(SegmentEntries, MaxContent)}
SimilarityFrames ==
    {Frame("QR_SIMILARITY", q, cat, c) :
        q \in DataIds, cat \in Categories,
        c \in SeqsUpTo(SimilarityEntries, MaxContent)}
EndFrames == {Frame("QR_END", q, Null, <<>>) : q \in QueryIds}
ErrorFrames == {Frame("QR_ERROR", q, Null, <<>>) : q \in QueryIds}
OtherFrames == {Frame("PING", Null, Null, <<>>)}

\* Messages of a subscribed kind whose text is not JSON.
MalformedFrames ==
    {[messagetype |-> kind, text |-> "{not json"] : kind \in Subscribed}

DataKinds == {"QR_OBJECT", "QR_SEGMENT", "QR_SIMILARITY"}

\* The frame sequence of the end-to-end scenario.
Scenario ==
    <<Frame("QR_START", "q1", Null, <<>>),
      Frame("QR_OBJECT", "q1", Null, <<[objectId |-> "o1", name |-> "cat.jpg"]>>),
      Frame("QR_SEGMENT", "q1", Null, <<[segmentId |-> "s1", objectId |-> "o1"]>>),
      Frame("QR_SIMILARITY", "q1", "color", <<[key |-> "s1", value |-> 80]>>),
      Frame("QR_END", "q1", Null, <<>>)>>

SameFrame(a, b) == a.messagetype = b.messagetype /\ a = b

\* How far the scenario has got once msg is processed after k of its frames.
NextScript(k, msg) ==
    IF k < Len(Scenario) /\ SameFrame(msg, Scenario[k + 1]) THEN k + 1
    ELSE IF SameFrame(msg, Scenario[1]) THEN 1
    ELSE 0

Contains(seq, x) == \E i \in 1..Len(seq) : seq[i] = x

\* The record of what the frames of the current query have referenced:
\* the object ids named by object and segment entries, the last object entry
\* per id, the (segmentId, objectId) pairs registered, whether the last
\* operation was a matching similarity frame none of whose entries named a
\* segment of the index, and whether any similarity frame has matched.
Blank ==
    [objects |-> {}, meta |-> EmptyMap, owned |-> {}, unresolved |-> FALSE,
     similar |-> FALSE]

\* The position of the last entry of content that names object o.
LastEntry(content, o) ==
    CHOOSE i \in 1..Len(content) :
        /\ content[i].objectId = o
        /\ \A j \in (i + 1)..Len(content) : content[j].objectId # o

\* The record once msg has been delivered to the service s.
Note(h, s, msg) ==
    LET c == msg.content
        matches == msg.queryId = s.queryId
        ids == {c[i].objectId : i \in 1..Len(c)} \ {Null}
    IN CASE msg.messagetype = "QR_START" -> Blank
         [] msg.messagetype = "QR_OBJECT" /\ matches ->
                [h EXCEPT !.objects = @ \cup ids,
                          !.meta = [o \in (DOMAIN @) \cup ids |->
                                       IF o \in ids THEN c[LastEntry(c, o)]
                                       ELSE @[o]],
                          !.unresolved = FALSE]
         [] msg.messagetype = "QR_SEGMENT" /\ matches ->
                [h EXCEPT !.objects = @ \cup ids,
                          !.owned = @ \cup {<<c[i].segmentId, c[i].objectId>> :
                                               i \in 1..Len(c)},
                          !.unresolved = FALSE]
         [] msg.messagetype = "QR_SIMILARITY" /\ matches ->
                [h EXCEPT !.unresolved =
                     (/\ c # <<>>
                      /\ \A i \in 1..Len(c) :
                             ~Has(s.segment_to_object_map, c[i].key)),
                          !.similar = TRUE]
         [] OTHER -> [h EXCEPT !.unresolved = FALSE]

\* ---------------------------------------------------------------- actions
Init ==
    /\ results = EmptyMap
    /\ segment_to_object_map = EmptyMap
    /\ queryId = Null
    /\ running = FALSE
    /\ features = <<>>
    /\ emitted = <<>>
    /\ sent = <<>>
    /\ last = [op |-> "constructor", queryId |-> Null, arg |-> Null,
               returned |-> "undefined", wasRunning |-> FALSE,
               hadData |-> FALSE]
    /\ pending = FALSE
    /\ started = FALSE
    /\ ended = 0
    /\ script = 0
    /\ observed = <<>>
    /\ scored = <<>>
    /\ seen = Blank
    /\ mediaobjects = <<>>
    /\ views = <<>>
    /\ pipe = NotCalled

\* What the operation op with argument record did: the service s2 it left,
\* the requests out it sent; the history variables follow the events.
Commit(s2, out, op, q, arg, ret, k) ==
    /\ results' = s2.results
    /\ segment_to_object_map' = s2.segment_to_object_map
    /\ queryId' = s2.queryId
    /\ running' = s2.running
    /\ features' = s2.features
    /\ emitted' = s2.events
    /\ scored' = s2.scored
    /\ mediaobjects' = s2.mediaobjects
    /\ views' = s2.views
    /\ pipe' = pipe
    /\ sent' = out
    /\ last' = [op |-> op, queryId |-> q, arg |-> arg, returned |-> ret,
                wasRunning |-> running,
                hadData |-> (results # EmptyMap /\ features # <<>>
                             /\ segment_to_object_map # EmptyMap)]
    /\ pending' = IF Contains(s2.events, "ENDED") THEN FALSE
                  ELSE IF out # <<>> THEN TRUE
                  ELSE pending
    /\ started' = (started \/ Contains(s2.events, "STARTED"))
    /\ ended' = IF Contains(s2.events, "STARTED") THEN 0
                ELSE IF Contains(s2.events, "ENDED")
                     THEN (IF ended < 2 THEN ended + 1 ELSE ended)
                ELSE ended
    /\ script' = k
    /\ observed' = IF k = 0 THEN <<>>
                   ELSE IF k = 1 THEN s2.events
                   ELSE observed \o s2.events

\* The API's observable delivers msg to the constructor's subscription.
Deliver(msg) ==
    /\ Commit(onMessage(Service, msg), <<>>, msg.messagetype, msg.queryId,
              msg.category, "undefined", NextScript(script, msg))
    /\ seen' = Note(seen, Service, msg)

DeliverStart ==
    \E msg \in StartFrames : msg.messagetype = "QR_START" /\ Deliver(msg)
DeliverObject ==
    \E msg \in ObjectFrames : msg.messagetype = "QR_OBJECT" /\ Deliver(msg)
DeliverSegment ==
    \E msg \in SegmentFrames : msg.messagetype = "QR_SEGMENT" /\ Deliver(msg)
DeliverSimilarity ==
    \E msg \in SimilarityFrames :
        msg.messagetype = "QR_SIMILARITY" /\ Deliver(msg)
DeliverEnd ==
    \E msg \in EndFrames : msg.messagetype = "QR_END" /\ Deliver(msg)
DeliverError ==
    \E msg \in ErrorFrames : msg.messagetype = "QR_ERROR" /\ Deliver(msg)
DeliverOther ==
    \E msg \in OtherFrames : msg.messagetype \notin Subscribed /\ Deliver(msg)

\* The API's observable delivers a message whose text does not parse.
DeliverMalformed ==
    \E msg \in MalformedFrames :
        LET r == onApiMessageMalformed(Service)
        IN /\ msg.messagetype \in Subscribed
           /\ Commit(r.service, <<>>, "MALFORMED", Null, Null, r.thrown, 0)
           /\ seen' = [seen EXCEPT !.unresolved = FALSE]

\* A call of findSimilar that marks the query as running when it sends.
CallFindSimilar_MarksRunning ==
    \E query \in Queries :
        LET r == findSimilar(Service, query)
        IN /\ r.ret \in {"true", "false"}
           /\ Commit([Service EXCEPT !.running = (@ \/ r.ret = "true")],
                     r.out, "findSimilar", Null, query, r.ret, 0)
           /\ seen' = [seen EXCEPT !.unresolved = FALSE]

\* A caller invokes findSimilar(query).
CallFindSimilar ==
    \E query \in Queries :
        LET r == findSimilar(Service, query)
        IN /\ r.ret \in {"true", "false"}
           /\ Commit(Service, r.out, "findSimilar", Null, query, r.ret, 0)
           /\ seen' = [seen EXCEPT !.unresolved = FALSE]

\* A caller invokes findMoreLikeThis(segmentId).
CallFindMoreLikeThis ==
    \E segmentId \in ExampleIds :
        LET r == findMoreLikeThis(Service, segmentId)
        IN /\ r.ret \in {"true", "false"}
           /\ Commit(Service, r.out, "findMoreLikeThis", Null, segmentId,
                     r.ret, 0)
           /\ seen' = [seen EXCEPT !.unresolved = FALSE]

\* A caller invokes rerank(); the call reads queryId nowhere and leaves it.
CallRerank ==
    LET s2 == rerank(Service)
    IN /\ s2.queryId = queryId
       /\ Commit(s2, <<>>, "rerank", Null, Null, "undefined", 0)
       /\ seen' = [seen EXCEPT !.unresolved = FALSE]

Next ==
    \/ DeliverStart
    \/ DeliverObject
    \/ DeliverSegment
    \/ DeliverSimilarity
    \/ DeliverEnd
    \/ DeliverError
    \/ DeliverOther
    \/ DeliverMalformed
    \/ CallFindSimilar
    \/ CallFindMoreLikeThis
    \/ CallRerank

Spec == Init /\ [][Next]_vars

\* ------------------------------------------------- the service with clear
\* clear() that leaves the feature list alone.
clear_KeepFeatures(s) ==
    LET s1 == [s EXCEPT !.results = EmptyMap,
                        !.segment_to_object_map = EmptyMap,
                        !.queryId = Null,
                        !.running = FALSE]
    IN Emit(IF s.running THEN Emit(s1, "ENDED") ELSE s1, "CLEAR")

\* clear(), which the callers of the later QueryService use: drops the query
\* id, empties the containers, the index and the feature list, and emits
\* ENDED (if a query was running) followed by CLEAR.
clear(s) ==
    LET s1 == [s EXCEPT !.results = EmptyMap,
                        !.segment_to_object_map = EmptyMap,
                        !.queryId = Null,
                        !.features = <<>>,
                        !.running = FALSE]
    IN Emit(IF s.running THEN Emit(s1, "ENDED") ELSE s1, "CLEAR")

\* A caller invokes clear().
CallClear ==
    LET s2 == clear(Service)
    IN /\ Contains(s2.events, "CLEAR")
       /\ Commit(s2, <<>>, "clear", Null, Null, "undefined", 0)
       /\ seen' = Blank

NextClear == Next \/ CallClear

SpecClear == Init /\ [][NextClear]_vars

\* ------------------------------------------------ the pipe of the views
\* A template evaluates the pipe on an array.
CallTransform ==
    \E array \in PipeArrays, flag \in PipeFlags :
        \E r \in transform(array, flag) :
            /\ pipe' = [called |-> TRUE, given |-> array, flag |-> flag,
                        array |-> r.array, out |-> r.out]
            /\ UNCHANGED <<results, segment_to_object_map, queryId, running,
                           features, emitted, sent, last, pending, started,
                           ended, script, observed, scored, seen,
                           mediaobjects, views>>

NextPipe == CallTransform

SpecPipe == Init /\ [][NextPipe]_vars

\* ------------------------------------------- a response over two objects
\* The frames of one query q1 whose entries range over two objects, two
\* segments and two raw values; every frame carries one entry.  Segment s1
\* is reported under either object, segment s2 under o1.
WideObjectIds == {"o1", "o2"}
WideSegmentIds == {"s1", "s2"}
WideValues == {50, 80}
WideSegmentEntries ==
    {[segmentId |-> "s1", objectId |-> o] : o \in WideObjectIds}
        \cup {[segmentId |-> "s2", objectId |-> "o1"]}
WideSegmentFrames ==
    {Frame("QR_SEGMENT", "q1", Null, <<e>>) : e \in WideSegmentEntries}
WideSimilarityFrames ==
    {Frame("QR_SIMILARITY", "q1", cat, <<e>>) :
        cat \in Categories, e \in [key : WideSegmentIds, value : WideValues]}

DeliverWideSegment ==
    \E msg \in WideSegmentFrames :
        msg.messagetype = "QR_SEGMENT" /\ Deliver(msg)
DeliverWideSimilarity ==
    \E msg \in WideSimilarityFrames :
        msg.messagetype = "QR_SIMILARITY" /\ Deliver(msg)

NextWide ==
    \/ DeliverStart
    \/ DeliverWideSegment
    \/ DeliverWideSimilarity
    \/ CallRerank

SpecWide == Init /\ [][NextWide]_vars

\* ------------------------------------------------------------ properties
\* C1: findSimilar returns false exactly when the running flag is set and
\* true otherwise; it hands one request (carrying the query) to the transport
\* exactly when it returns true and sends nothing when it returns false.
C1_FindSimilarAdmission ==
    last.op = "findSimilar" =>
        /\ (last.returned = "false") <=> last.wasRunning
        /\ (last.returned = "true") <=> ~last.wasRunning
        /\ last.returned = "true" =>
               sent = <<[messagetype |-> "Q_SIM", query |-> last.arg]>>
        /\ last.returned = "false" => sent = <<>>

\* findSimilar was rejected while a query was running.
C1_Witness ==
    last.op = "findSimilar" /\ last.wasRunning /\ last.returned = "false"

\* C2: findMoreLikeThis(segmentId) returns false and sends nothing when the
\* running flag is set or the feature list is empty; otherwise it returns
\* true and sends one more-like-this request with segmentId and the names of
\* all the features, in list order.
C2_MoreLikeThisContract ==
    last.op = "findMoreLikeThis" =>
        IF last.wasRunning \/ Len(features) = 0
        THEN last.returned = "false" /\ sent = <<>>
        ELSE /\ last.returned = "true"
             /\ Len(sent) = 1
             /\ sent[1].messagetype = "Q_MLT"
             /\ sent[1].segmentId = last.arg
             /\ Len(sent[1].categories) = Len(features)
             /\ \A i \in 1..Len(features) :
                    sent[1].categories[i] = features[i].name

\* findMoreLikeThis was accepted with two features known.
C2_Witness ==
    /\ last.op = "findMoreLikeThis"
    /\ last.returned = "true"
    /\ Len(features) = 2

\* C3: once findSimilar or findMoreLikeThis has sent a request, no further
\* request is sent until a QR_END has been processed.
C3_OneQueryAtATime == [][pending => sent' = <<>>]_vars

\* C4: a QR_START{queryId} frame, in whatever state it is processed, leaves
\* queryId as the session identifier, the result map, the feature list and
\* the segment-to-object index empty, the running flag set, and emits exactly
\* one STARTED event.
C4_StartResets ==
    last.op = "QR_START" =>
        /\ queryId = last.queryId
        /\ results = EmptyMap
        /\ features = <<>>
        /\ segment_to_object_map = EmptyMap
        /\ running
        /\ emitted = <<"STARTED">>

\* A QR_START was processed while a query with results, features and
\* indexed segments was running.
C4_Witness == last.op = "QR_START" /\ last.wasRunning /\ last.hadData

\* C5: a QR_OBJECT, QR_SEGMENT or QR_SIMILARITY frame whose queryId differs
\* from the session identifier changes neither the result map, the feature
\* list, the index nor the running flag, and emits no event.
C5_StaleFrameDropped ==
    [][(last'.op \in DataKinds /\ last'.queryId # queryId) =>
           /\ UNCHANGED <<results, features, segment_to_object_map, running,
                          queryId>>
           /\ emitted' = <<>>]_vars

\* A similarity frame for q1 was delivered to the running session q2, which
\* holds results.
C5_Witness ==
    /\ last.op = "QR_SIMILARITY"
    /\ last.queryId = "q1"
    /\ queryId = "q2"
    /\ running
    /\ results # EmptyMap

\* C6 as stated: the scenario's five frames yield the events STARTED,
\* UPDATED, UPDATED, FEATURE, UPDATED, ENDED.
C6_ScenarioEventsAsStated ==
    script = Len(Scenario) =>
        observed = <<"STARTED", "UPDATED", "UPDATED", "FEATURE", "UPDATED",
                     "ENDED">>

\* C6 amended: the scenario's five frames yield STARTED, UPDATED, UPDATED,
\* FEATURE, FEATURE, UPDATED, ENDED: the similarity frame that introduces a
\* feature emits FEATURE for the new feature, then FEATURE and UPDATED for
\* the re-rank.
C6_ScenarioEvents ==
    /\ script = Len(Scenario) =>
           observed = <<"STARTED", "UPDATED", "UPDATED", "FEATURE", "FEATURE",
                        "UPDATED", "ENDED">>
    /\ (script = 4 /\ last.op = "QR_SIMILARITY") =>
           emitted = <<"FEATURE", "FEATURE", "UPDATED">>

\* The five frames of the scenario have just been processed.
C6_Witness == script = Len(Scenario) /\ last.op = "QR_END"

\* C7: a QR_END leaves the session not running and emits ENDED, and from
\* then until the next QR_START no object, segment or similarity frame
\* changes the result map or the feature list.
C7_FrozenAfterEnd ==
    [][/\ last'.op = "QR_END" => (~running' /\ emitted' = <<"ENDED">>)
       /\ (started /\ ended > 0 /\ last'.op \in DataKinds) =>
              (results' = results /\ features' = features)]_vars

\* C8: a QR_ERROR frame for the running session leaves the session not
\* running and emits an ERROR event.
C8_ErrorEndsSession ==
    (last.op = "QR_ERROR" /\ last.wasRunning /\ last.queryId = queryId) =>
        (~running /\ Contains(emitted, "ERROR"))

\* C9: between two STARTED events at most one ENDED is emitted, and no ENDED
\* is emitted before the first STARTED.
C9_OneTerminalEvent == ended <= 1 /\ (ended >= 1 => started)

\* C10: a QR_END frame whose queryId differs from the identifier of the
\* running session leaves the running flag set and the index as it was, and
\* emits no ENDED event.
C10_StaleEndDiscarded ==
    [][(last'.op = "QR_END" /\ last'.queryId # queryId /\ running) =>
           /\ running'
           /\ segment_to_object_map' = segment_to_object_map
           /\ ~Contains(emitted', "ENDED")]_vars

\* C11: the feature list never holds two features of the same name, and a
\* matching similarity frame for a category that is already registered gets
\* the existing feature and leaves the list as it was.
C11_FeaturesUnique ==
    [][/\ \A i, j \in 1..Len(features') :
              features'[i].name = features'[j].name => i = j
       /\ (/\ last'.op = "QR_SIMILARITY"
           /\ last'.queryId = queryId
           /\ FeatureIndex(features, last'.arg) # 0)
          => /\ features' = features
             /\ FeatureFor(Service, last'.arg)
                  = features'[FeatureIndex(features', last'.arg)]]_vars

\* A similarity frame was processed for a category registered before it (no
\* FEATURE event of a registration precedes the two of rerank) while the list
\* holds both categories.
C11_Witness ==
    /\ last.op = "QR_SIMILARITY"
    /\ emitted = <<"FEATURE", "UPDATED">>
    /\ Len(features) = 2

\* C12: a matching similarity frame whose entries all name segments that no
\* segment frame of the query has recorded raises nothing, creates no
\* container, stores no value and leaves every score as it was.
C12_UnknownSegmentsIgnored ==
    [][seen'.unresolved =>
          /\ last'.returned = "undefined"
          /\ DOMAIN results' = DOMAIN results
          /\ results' = results]_vars

\* Such a frame was processed while the index held another segment and a
\* container had a score.
C12_Witness ==
    /\ seen.unresolved
    /\ last.op = "QR_SIMILARITY"
    /\ segment_to_object_map # EmptyMap
    /\ \E o \in DOMAIN results : results[o].score > 0

\* C13: after a QR_START, whatever object and segment frames with the live
\* queryId have been processed, the result map has a container for every
\* object id an object entry or a segment entry named, the container's
\* metadata is the last object entry seen for the id, and the container
\* holds every segment registered for it, as last registered.
C13_ResponseAssembled ==
    started =>
        \A o \in seen.objects :
            /\ Has(results, o)
            /\ Has(seen.meta, o) => results[o].mediaObject = seen.meta[o]
            /\ \A p \in seen.owned :
                  p[2] = o =>
                      /\ Has(results[o].segments, p[1])
                      /\ results[o].segments[p[1]].objectId = o

\* A running query has processed object entries and segment entries, the
\* last frame an object frame that left the name dog.jpg.
C13_Witness ==
    /\ started /\ running
    /\ last.op = "QR_OBJECT" /\ last.queryId = queryId
    /\ seen.owned # {}
    /\ Has(seen.meta, "o1") /\ seen.meta["o1"].name = "dog.jpg"

\* C14: within a query a segment id belongs to one object: once the index
\* records it under an object no later segment frame records it under another,
\* and no segment is held by two containers at once.
C14_SegmentHasOneOwner ==
    [][/\ \A sid \in DOMAIN segment_to_object_map :
              Has(segment_to_object_map', sid) =>
                  segment_to_object_map'[sid] = segment_to_object_map[sid]
       /\ \A sid \in WideSegmentIds :
              Cardinality({o \in DOMAIN results' :
                              Has(results'[o].segments, sid)}) <= 1]_vars

\* The weighted sum of a segment's raw values over the registered features,
\* category by category; a category without feature or value adds nothing.
WeightedSum(similarities) ==
    LET Term(c) ==
            IF FeatureIndex(features, c) # 0 /\ Has(similarities, c)
            THEN similarities[c] * FeatureFor(Service, c).weight
            ELSE 0
    IN Term("color") + Term("edge")

\* C15: after a matching similarity frame or a rerank(), the score of every
\* container is the largest, over its segments, of the weighted sum over all
\* features of the segment's raw value times the feature's weight (0 where
\* there is no value); one segment with 0.8 under color alone scores
\* 0.8 * weight(color).
C15_ScoreIsMaxOfWeightedSums ==
    (last.op = "rerank" \/ (last.op = "QR_SIMILARITY" /\ last.queryId = queryId))
    => \A o \in DOMAIN results :
          LET sums == {WeightedSum(results[o].segments[sid].similarities) :
                          sid \in DOMAIN results[o].segments}
          IN /\ \A x \in sums : x <= results[o].score
             /\ results[o].score \in sums \cup {0}
             /\ (/\ CategoriesOf(features) = <<"color">>
                 /\ DOMAIN results[o].segments = {"s1"}
                 /\ results[o].segments["s1"].similarities
                      = [c \in {"color"} |-> 80])
                => results[o].score = 80 * FeatureFor(Service, "color").weight

\* A similarity frame left a container with two segments whose weighted sums
\* over two features differ, the score being the larger.
C15_Witness ==
    /\ last.op = "QR_SIMILARITY" /\ last.queryId = queryId
    /\ Len(features) = 2
    /\ Has(results, "o1") /\ DOMAIN results["o1"].segments = {"s1", "s2"}
    /\ WeightedSum(results["o1"].segments["s1"].similarities) = 13000
    /\ WeightedSum(results["o1"].segments["s2"].similarities) = 8000
    /\ results["o1"].score = 13000

\* C16: whenever an observer can read the service, at each event emission
\* and after each operation, every container's score agrees with the
\* features, raw values and weight function of that moment; this includes
\* the FEATURE event of a similarity frame that registers a new feature,
\* emitted before the frame's values are stored and re-ranked.
C16_ScoresCurrentWhenObserved ==
    /\ Coherent(Service)
    /\ Len(scored) = Len(emitted)
    /\ \A i \in 1..Len(scored) : scored[i]

\* A similarity frame registered a second feature (its FEATURE event comes
\* before the two of rerank) for a container that already had a score.
C16_Witness ==
    /\ last.op = "QR_SIMILARITY"
    /\ emitted = <<"FEATURE", "FEATURE", "UPDATED">>
    /\ Len(features) = 2
    /\ \E o \in DOMAIN results : results[o].score = 16000

\* C17: the order in which the containers are presented is total: a
\* container with a higher score comes before one with a lower score, equal
\* scores are in ascending order of object identifier, and a rerank()
\* repeated on unchanged input yields the same order.
C17_PresentationOrder ==
    [][/\ \A i, j \in 1..Len(mediaobjects') :
              i < j =>
                  \/ mediaobjects'[i].score > mediaobjects'[j].score
                  \/ /\ mediaobjects'[i].score = mediaobjects'[j].score
                     /\ IdRank(mediaobjects'[i].objectId)
                          < IdRank(mediaobjects'[j].objectId)
       /\ (last.op = "rerank" /\ last'.op = "rerank")
          => mediaobjects' = mediaobjects]_vars

\* rerank() left both objects displayed, o2 with the higher score first.
C17_Witness ==
    /\ last.op = "rerank"
    /\ emitted = <<"FEATURE", "UPDATED">>
    /\ Len(mediaobjects) = 2
    /\ mediaobjects[1].objectId = "o2"
    /\ mediaobjects[1].score > mediaobjects[2].score

\* C18: rerank() recomputes the score of every container and emits exactly
\* FEATURE then UPDATED, in every state (an empty result map and a service
\* that never ran a query included); it changes neither the set of
\* containers nor the feature list, the query id or the running flag.
C18_RerankContract ==
    [][last'.op = "rerank" =>
          /\ emitted' = <<"FEATURE", "UPDATED">>
          /\ DOMAIN results' = DOMAIN results
          /\ \A o \in DOMAIN results :
                results'[o] = update(results[o], features)
          /\ features' = features
          /\ queryId' = queryId
          /\ running' = running]_vars

\* rerank() was called on a service that has never seen a QR_START and
\* holds no container.
C18_Witness ==
    /\ last.op = "rerank"
    /\ ~started /\ queryId = Null
    /\ results = EmptyMap
    /\ emitted = <<"FEATURE", "UPDATED">>

C20_BadFrameDiscarded ==
    [][last'.op \in {"MALFORMED", "PING"} =>
          /\ last'.returned = "undefined"
          /\ emitted' = <<>>
          /\ UNCHANGED <<results, segment_to_object_map, queryId, running,
                         features>>]_vars

\* C21: empty inputs are no-ops: a matching QR_OBJECT, QR_SEGMENT or
\* QR_SIMILARITY frame with an empty content list, processed by a running
\* query, does not throw and leaves the result map, the index and the feature
\* list as they were.
C21_EmptyFramesAreNoOps ==
    (started /\ running) =>
        \A msg \in ObjectFrames \cup SegmentFrames \cup SimilarityFrames :
            (msg.content = <<>> /\ LooseEq(msg.queryId, queryId)) =>
                LET s2 == onMessage(Service, msg)
                IN /\ s2.results = results
                   /\ s2.segment_to_object_map = segment_to_object_map
                   /\ s2.features = features

\* C22: the reset on QR_START is atomic for observers: when STARTED is
\* emitted the result map, the feature list and the index are already empty
\* and the query id is already the new one, and at every emission the query
\* id a subscriber reads is the one the operation leaves.
C22_ResetAtomicForObservers ==
    /\ Len(views) = Len(emitted)
    /\ \A i \in 1..Len(views) :
          /\ views[i].queryId = queryId
          /\ emitted[i] = "STARTED" =>
                /\ views[i].blank
                /\ views[i].queryId = last.queryId

\* A QR_START was processed by a running query that held containers,
\* features and index entries under another query id.
C22_Witness ==
    /\ last.op = "QR_START" /\ last.wasRunning /\ last.hadData
    /\ emitted = <<"STARTED">>
    /\ queryId = "q2"

\* The number of UPDATED events among events.
Updates(events) == Cardinality({i \in 1..Len(events) : events[i] = "UPDATED"})

\* C23: every matching QR_OBJECT, QR_SEGMENT or QR_SIMILARITY frame emits
\* exactly one UPDATED, however many entries its content has, and emits it
\* after all entries have been applied: it is the last event, and what the
\* gallery built from the service during it is what the service holds at the
\* end.
C23_OneUpdatePerFrame ==
    (last.op \in DataKinds /\ LooseEq(last.queryId, queryId)) =>
        /\ Updates(emitted) = 1
        /\ emitted[Len(emitted)] = "UPDATED"
        /\ mediaobjects = updateGallery(Service)
        /\ scored[Len(scored)]

\* A running query processed a matching segment frame and emitted the one
\* UPDATED.
C23_Witness ==
    /\ running
    /\ last.op = "QR_SEGMENT" /\ last.queryId = queryId
    /\ segment_to_object_map # EmptyMap
    /\ emitted = <<"UPDATED">>

\* C24: object and segment frames commute for the container they build: from
\* a running query that has no container yet, a matching QR_OBJECT frame
\* followed by a matching QR_SEGMENT frame leaves the same containers and
\* index as the two in the opposite order, and the state in between holds
\* the container already (metadata without segments, or segments without
\* metadata).
C24_ObjectAndSegmentCommute ==
    (running /\ results = EmptyMap) =>
        \A fo \in ObjectFrames, fs \in SegmentFrames :
            (/\ LooseEq(fo.queryId, queryId) /\ LooseEq(fs.queryId, queryId)
             /\ fo.content # <<>> /\ fs.content # <<>>
             /\ \A i \in 1..Len(fo.content) : fo.content[i] # NullObject)
            => LET o1 == onMessage(Service, fo)
                   s1 == onMessage(Service, fs)
                   os == onMessage(o1, fs)
                   so == onMessage(s1, fo)
                   id == fo.content[1].objectId
               IN /\ os.results = so.results
                  /\ os.segment_to_object_map = so.segment_to_object_map
                  /\ Has(o1.results, id)
                  /\ o1.results[id].mediaObject # NullObject
                  /\ o1.results[id].segments = EmptyMap
                  /\ Has(s1.results, id)
                  /\ s1.results[id].mediaObject = NullObject
                  /\ s1.results[id].segments # EmptyMap
                  /\ os.results[id].mediaObject = o1.results[id].mediaObject
                  /\ os.results[id].segments = s1.results[id].segments

\* A matching segment frame completed a container that an object frame of
\* the running query had created with its metadata.
C24_Witness ==
    /\ running
    /\ last.op = "QR_SEGMENT" /\ last.queryId = queryId
    /\ Has(results, "o1")
    /\ results["o1"].mediaObject.name = "cat.jpg"
    /\ Has(results["o1"].segments, "s1")

\* C25: before any QR_START has been processed (query id null) there is no
\* data: no QR_OBJECT, QR_SEGMENT or QR_SIMILARITY frame, whatever its
\* queryId field (absent or null included), adds a container or a feature or
\* emits an event.
C25_IdleHoldsNoData ==
    ~started =>
        /\ results = EmptyMap
        /\ features = <<>>
        /\ last.op \in DataKinds => emitted = <<>>

\* C26: looking up or creating the feature of a category emits FEATURE
\* exactly when it creates one and nothing when the category is in the list;
\* a created feature has the category as name and label and the weight 100
\* and is appended at the end of the list.
C26_FeatureEventOnCreation ==
    \A category \in Categories :
        LET s2 == addFeatureForCategory(Service, category)
        IN IF \E i \in 1..Len(features) : features[i].name = category
           THEN /\ s2.events = <<>>
                /\ s2.features = features
           ELSE /\ s2.events = <<"FEATURE">>
                /\ s2.features =
                     features \o <<[name |-> category, label |-> category,
                                    weight |-> 100]>>
                /\ FeatureFor(s2, category) = s2.features[Len(s2.features)]

\* A similarity frame created the feature edge behind the feature color: its
\* FEATURE event precedes the two events of rerank.
C26_Witness ==
    /\ last.op = "QR_SIMILARITY" /\ last.arg = "edge"
    /\ emitted = <<"FEATURE", "FEATURE", "UPDATED">>
    /\ CategoriesOf(features) = <<"color", "edge">>
    /\ features[2] = [name |-> "edge", label |-> "edge", weight |-> 100]

\* C27: transform returns the segments in temporal order: a permutation of
\* the input in non-decreasing starttime order with the default argument
\* (and with desc true), in non-increasing order with desc false; the input
\* array is not reordered; a null, undefined or empty input gives an empty
\* array.
C27_PipeSortsACopy ==
    pipe.called =>
        LET in == pipe.given.items
            n == Len(in)
        IN /\ pipe.array = pipe.given
           /\ IF pipe.given.kind # "array" \/ n = 0 THEN pipe.out = <<>>
              ELSE /\ Len(pipe.out) = n
                   /\ \A x \in PipeSegments :
                         Cardinality({i \in 1..n : pipe.out[i] = x})
                             = Cardinality({i \in 1..n : in[i] = x})
                   /\ \A i \in 1..(n - 1) :
                         IF pipe.flag = "false"
                         THEN pipe.out[i].starttime >= pipe.out[i + 1].starttime
                         ELSE pipe.out[i].starttime <= pipe.out[i + 1].starttime

\* transform was called without the desc argument on three segments that
\* were not in temporal order.
C27_Witness ==
    /\ pipe.called /\ pipe.flag = "undefined"
    /\ Len(pipe.given.items) = 3
    /\ pipe.given.items[1].starttime = 5
    /\ pipe.given.items[3].starttime = 0
    /\ pipe.out # pipe.given.items

\* C28: every value of the segment-to-object index is a key of the result
\* map, so a similarity entry resolved through the index finds its container
\* and no similarity frame adds a container.
C28_IndexResolves ==
    /\ \A sid \in DOMAIN segment_to_object_map :
          Has(results, segment_to_object_map[sid])
    /\ \A msg \in WideSimilarityFrames :
          DOMAIN onMessage(Service, msg).results = DOMAIN results

\* A similarity frame was resolved through an index that holds both
\* segments, under different objects.
C28_Witness ==
    /\ last.op = "QR_SIMILARITY" /\ last.queryId = queryId
    /\ ~seen.unresolved
    /\ DOMAIN segment_to_object_map = {"s1", "s2"}
    /\ segment_to_object_map["s1"] = "o2"
    /\ segment_to_object_map["s2"] = "o1"

\* C29: the running flag changes on inbound frames only: it becomes true
\* only when a QR_START is processed and false only when a QR_END is
\* processed, and it is true exactly when a QR_START has been processed and
\* no QR_END has been processed since the most recent one.
C29_RunningFollowsFrames ==
    /\ running <=> (started /\ ended = 0)
    /\ (running /\ ~last.wasRunning) => last.op = "QR_START"
    /\ (~running /\ last.wasRunning) => last.op = "QR_END"

\* A QR_END ended a running query.
C29_Witness ==
    /\ last.op = "QR_END" /\ last.wasRunning
    /\ ~running /\ started /\ ended = 1

\* C30: findSimilar and findMoreLikeThis, accepting or rejecting, leave the
\* query id, the running flag, the result map, the feature list and the
\* index unchanged and emit no event; the request sent on acceptance is
\* their only effect.
C30_RequestsLeaveState ==
    [][last'.op \in {"findSimilar", "findMoreLikeThis"} =>
          /\ UNCHANGED <<queryId, running, results, features,
                         segment_to_object_map>>
          /\ emitted' = <<>>
          /\ (sent' # <<>>) <=> (last'.returned = "true")]_vars

\* findSimilar was accepted while the service held the containers, features
\* and query id of an ended query.
C30_Witness ==
    /\ last.op = "findSimilar" /\ last.returned = "true"
    /\ sent # <<>>
    /\ results # EmptyMap /\ features # <<>> /\ queryId # Null

\* C31: after a QR_START, findMoreLikeThis returns false until both a
\* QR_SIMILARITY frame with the query's id has been accepted and a QR_END has
\* been processed; a query that ends without an accepted similarity frame
\* leaves findMoreLikeThis rejecting.
C31_MoreLikeThisNeedsEndedQuery ==
    (started /\ last.op = "findMoreLikeThis") =>
        /\ last.returned = "true" => (seen.similar /\ ended >= 1)
        /\ ~seen.similar => last.returned = "false"

\* findMoreLikeThis was rejected after a query that had containers ended
\* without any similarity frame.
C31_Witness ==
    /\ started /\ ended = 1 /\ ~running
    /\ ~seen.similar
    /\ results # EmptyMap
    /\ last.op = "findMoreLikeThis" /\ last.returned = "false"

\* C32: processing QR_END leaves the result map, the feature list and the
\* query id unchanged and empties the index, so that afterwards no entry of
\* a similarity frame is resolved to a container until segments are
\* registered again.
C32_EndKeepsResultsDropsIndex ==
    \A end \in EndFrames :
        LET s2 == onMessage(Service, end)
        IN /\ s2.results = results
           /\ s2.features = features
           /\ s2.queryId = queryId
           /\ s2.segment_to_object_map = EmptyMap
           /\ \A sim \in SimilarityFrames :
                 LooseEq(sim.queryId, s2.queryId) =>
                     onMessage(s2, sim).results = results

\* A QR_END was processed by a query that held containers, features and
\* index entries.
C32_Witness ==
    /\ last.op = "QR_END" /\ last.hadData
    /\ segment_to_object_map = EmptyMap
    /\ results # EmptyMap /\ features # <<>>
====
